---- MODULE Spec2Model ----
(***************************************************************************)
(* Model of principal_component_analysis/pca.py: the PCA class, its two    *)
(* solvers (np.cov + np.linalg.eig, np.linalg.svd), transform,             *)
(* fit_transform and the explained_variance property.                      *)
(*                                                                         *)
(* Numbers are exact.  A float is an extended rational <<num, den>> in     *)
(* lowest terms: den > 0 for a non-zero finite value, <<0,1>> is +0.0,     *)
(* <<0,-1>> is -0.0, and den = 0 encodes the IEEE specials that a float    *)
(* division by zero yields (<<0,0>> is nan, <<1,0>> is inf, <<-1,0>> is    *)
(* -inf).  Rounding is not modelled: a result is the exact value of the    *)
(* expression.  A singular value is carried as the exact square            *)
(* root of a rational, [sq |-> q], because it is irrational in general;    *)
(* np.square of it is q.  The decompositions are modelled by their         *)
(* defining equations: every orthonormal eigenbasis (every order, every    *)
(* sign) that numpy's contract allows is an outcome.                       *)
(***************************************************************************)
EXTENDS Integers, Sequences, FiniteSets

VARIABLES n_components, solver, components, vectors,
          lastOp, arg, argAfter, outcome, retMatrix, retScalar,
          fitArg, refit

\* n_components, solver, components, vectors: the object's fields
\*     (components / vectors are None until a fit stores arrays)
\* lastOp:    the method called last ("init" after construction)
\* arg:       index in Datasets of the matrix passed to it (0: none)
\* argAfter:  what the caller's matrix holds after the call
\* outcome:   "returned", or the name of the exception raised
\* retMatrix: the matrix returned by transform / fit_transform
\* retScalar: the float returned by explained_variance
\* fitArg:    index of the matrix of the last fit, fit_svd, fit_cov or
\*            fit_transform (0: none)
\* refit:     the last fit replaced the result of a fit on another matrix
vars == <<n_components, solver, components, vectors,
          lastOp, arg, argAfter, outcome, retMatrix, retScalar,
          fitArg, refit>>

(* ---------------------------------------------------------------------- *)
(* Bounds                                                                 *)
(* ---------------------------------------------------------------------- *)
\* n_components ranges over 1..MaxComponents (the constructor's argument)
MaxComponents == 3

(* ---------------------------------------------------------------------- *)
(* Exact arithmetic on floats                                             *)
(* ---------------------------------------------------------------------- *)
Abs(x) == IF x < 0 THEN -x ELSE x

RECURSIVE Gcd(_, _)
Gcd(a, b) == IF b = 0 THEN a ELSE Gcd(b, a % b)

Sign(x) == IF x > 0 THEN 1 ELSE IF x < 0 THEN -1 ELSE 0

\* the float of sign sgn (1 or -1) and magnitude num/den (num, den >= 0):
\* 0/0 is nan, x/0 a signed infinity, 0/x a signed zero
Norm(sgn, num, den) ==
    IF den = 0 THEN <<(IF num = 0 THEN 0 ELSE sgn), 0>>
    ELSE IF num = 0 THEN <<0, sgn>>
    ELSE LET g == Gcd(num, den)
         IN  <<sgn * (num \div g), den \div g>>

R(i) == <<i, 1>>
Zero == R(0)
One == R(1)
NaN == <<0, 0>>

IsFinite(a) == a[2] # 0
IsNaN(a) == a = NaN
IsInf(a) == a[2] = 0 /\ a[1] # 0
\* +0.0 or -0.0
IsZero(a) == a[1] = 0 /\ a[2] # 0
\* the sign bit of a float that is not nan: -1 for negative values and -0.0
SignBit(a) == IF a[1] < 0 \/ (a[1] = 0 /\ a[2] < 0) THEN -1 ELSE 1

\* float ==: nan equals nothing, -0.0 equals +0.0
REq(a, b) == ~IsNaN(a) /\ ~IsNaN(b) /\ ((IsZero(a) /\ IsZero(b)) \/ a = b)

\* float +: nan propagates, inf + inf = inf, inf + -inf = nan,
\* -0.0 + -0.0 = -0.0, and every other zero sum (x + -x too) is +0.0
RAdd(a, b) ==
    IF IsNaN(a) \/ IsNaN(b) THEN NaN
    ELSE IF IsInf(a) THEN (IF IsInf(b) /\ b # a THEN NaN ELSE a)
    ELSE IF IsInf(b) THEN b
    ELSE IF IsZero(a) /\ IsZero(b)
    THEN (IF SignBit(a) = -1 /\ SignBit(b) = -1 THEN a ELSE Zero)
    ELSE LET num == a[1] * Abs(b[2]) + b[1] * Abs(a[2])
         IN  IF num = 0 THEN Zero
             ELSE Norm(Sign(num), Abs(num), Abs(a[2]) * Abs(b[2]))
\* float unary -: flips the sign bit, of a zero too
RNeg(a) == IF IsZero(a) THEN <<0, -a[2]>> ELSE <<-a[1], a[2]>>
RSub(a, b) == RAdd(a, RNeg(b))
\* float *: the sign is the product of the signs (of zeros too),
\* inf * 0 = nan
RMul(a, b) ==
    IF IsNaN(a) \/ IsNaN(b) THEN NaN
    ELSE Norm(SignBit(a) * SignBit(b),
              Abs(a[1]) * Abs(b[1]), Abs(a[2]) * Abs(b[2]))
\* float division: the sign is the product of the signs; x / 0 is nan
\* (x = 0) or an infinity (numpy warns, it does not raise), inf / inf = nan,
\* x / inf = 0
RDiv(a, b) ==
    IF IsNaN(a) \/ IsNaN(b) THEN NaN
    ELSE Norm(SignBit(a) * SignBit(b),
              Abs(a[1]) * Abs(b[2]), Abs(a[2]) * Abs(b[1]))
\* float comparisons: false when either side is nan; -0.0 = +0.0
RLeq(a, b) ==
    /\ ~IsNaN(a)
    /\ ~IsNaN(b)
    /\ IF IsInf(a) /\ IsInf(b) THEN a[1] <= b[1]
       ELSE a[1] * Abs(b[2]) <= b[1] * Abs(a[2])
RLt(a, b) ==
    /\ ~IsNaN(a)
    /\ ~IsNaN(b)
    /\ IF IsInf(a) /\ IsInf(b) THEN a[1] < b[1]
       ELSE a[1] * Abs(b[2]) < b[1] * Abs(a[2])

\* ndarray.sum(): the elements are accumulated onto 0.0 (so the sum of
\* -0.0 alone is +0.0)
RECURSIVE RSum(_)
RSum(s) == IF s = <<>> THEN Zero ELSE RAdd(Head(s), RSum(Tail(s)))

(* ---------------------------------------------------------------------- *)
(* Arrays: a vector is a sequence of floats, a matrix a sequence of rows  *)
(* ---------------------------------------------------------------------- *)
None == <<>>

Rows(M) == Len(M)
Cols(M) == Len(M[1])

IntMatrix(M) == [r \in 1..Len(M) |-> [c \in 1..Len(M[r]) |-> R(M[r][c])]]

Column(M, c) == [r \in 1..Rows(M) |-> M[r][c]]

\* ndarray.T
Transpose(M) == [c \in 1..Cols(M) |-> Column(M, c)]

\* the inner product accumulates the products onto 0.0
Dot(u, v) == RSum([i \in 1..Len(u) |-> RMul(u[i], v[i])])

\* ndarray.dot for two matrices
MatMul(A, B) ==
    [r \in 1..Rows(A) |-> [c \in 1..Cols(B) |-> Dot(A[r], Column(B, c))]]

MatVec(A, v) == [r \in 1..Rows(A) |-> Dot(A[r], v)]

Scale(k, v) == [i \in 1..Len(v) |-> RMul(k, v[i])]

\* np.array_equal of two vectors of one length: elementwise float ==
VecEq(u, v) == \A i \in 1..Len(u) : REq(u[i], v[i])

\* np.array_equal of two matrices: same shape and elementwise float ==
MatEq(A, B) ==
    /\ Len(A) = Len(B)
    /\ \A r \in 1..Len(A) : Len(A[r]) = Len(B[r]) /\ VecEq(A[r], B[r])

\* x.mean(axis=0): the per-feature (column) means
MeanAxis0(M) ==
    [c \in 1..Cols(M) |-> RDiv(RSum(Column(M, c)), R(Rows(M)))]

\* x.mean(): one scalar, the mean of every entry
MeanAll(M) ==
    RDiv(RSum([c \in 1..Cols(M) |-> RSum(Column(M, c))]),
         R(Rows(M) * Cols(M)))

\* x - v with v broadcast over the rows; the result is a new array
SubRow(M, v) ==
    [r \in 1..Rows(M) |-> [c \in 1..Cols(M) |-> RSub(M[r][c], v[c])]]

\* x - s with the scalar s broadcast over every entry; a new array
SubScalar(M, s) ==
    [r \in 1..Rows(M) |-> [c \in 1..Cols(M) |-> RSub(M[r][c], s)]]

\* np.cov(X.T): variables are the columns of X; np.cov subtracts each
\* variable's mean itself and divides by n - 1
Cov(X) ==
    LET Xc == SubRow(X, MeanAxis0(X))
        G == MatMul(Transpose(Xc), Xc)
    IN  [r \in 1..Cols(X) |->
            [c \in 1..Cols(X) |-> RDiv(G[r][c], R(Rows(X) - 1))]]

(* ---------------------------------------------------------------------- *)
(* Inputs                                                                 *)
(* ---------------------------------------------------------------------- *)
\* The matrices a caller passes (n rows = observations, d columns =
\* features, n >= 2).  The decompositions are exact, so the inputs are
\* matrices whose principal directions have rational coordinates in each
\* form the program decomposes: centred by the column means (fit), by the
\* scalar mean (fit_transform) and as passed (fit_svd called directly).
\* Every method returns on every one of them.
\*   1: three points on the line through (3,4), zero column means
\*   2: second feature constant, column means 12 and 0 (unequal), scalar
\*      mean 6
\*   3: every row identical (zero total variance)
\*   4: two observations of three features (n < d)
\*   5: two unequal variances along (3,4) and (-4,3), zero column means
\*   6: matrix 2 shifted by -6: column means 6 and -6, scalar mean 0
Datasets ==
    << IntMatrix(<< <<-3, -4>>, <<0, 0>>, <<3, 4>> >>),
       IntMatrix(<< <<19, 0>>, <<7, 0>>, <<9, 0>>, <<13, 0>> >>),
       IntMatrix(<< <<0, 0>>, <<0, 0>> >>),
       IntMatrix(<< <<1, 0, 0>>, <<-1, 0, 0>> >>),
       IntMatrix(<< <<6, 8>>, <<-6, -8>>, <<-4, 3>>, <<4, -3>> >>),
       IntMatrix(<< <<13, -6>>, <<1, -6>>, <<3, -6>>, <<7, -6>> >>) >>

DataIds == DOMAIN Datasets

Solvers == {"svd", "cov"}

(* ---------------------------------------------------------------------- *)
(* The decompositions (numpy.linalg)                                      *)
(* ---------------------------------------------------------------------- *)
\* Coordinates a unit direction returned by a decomposition may have in
\* the model: the axis directions, and in the plane also the rotations
\* by the 3-4-5 angle.  (A degenerate eigenspace has infinitely many
\* orthonormal bases; these are the ones the model draws from.)  Eig and
\* Svd are defined for the matrices whose eigenvectors lie on this grid,
\* which every matrix the program decomposes from Datasets does; a zero
\* coordinate is returned as +0.0.
AxisGrid == {Zero, One, R(-1)}
Grid == AxisGrid \cup {<<3, 5>>, <<-3, 5>>, <<4, 5>>, <<-4, 5>>}

Dims == {Cols(Datasets[i]) : i \in DataIds}

\* the unit-norm vectors of each dimension
UnitDirs ==
    [d \in Dims |->
        {v \in [1..d -> IF d = 2 THEN Grid ELSE AxisGrid] : REq(Dot(v, v), One)}]

\* v^T A v: the eigenvalue of the unit eigenvector v
Rayleigh(A, v) == Dot(v, MatVec(A, v))

IsEigenvector(A, v) == VecEq(MatVec(A, v), Scale(Rayleigh(A, v), v))

\* the orthonormal bases of eigenvectors of the symmetric matrix A
EigenBases(A) ==
    LET d == Len(A)
        E == {v \in UnitDirs[d] : IsEigenvector(A, v)}
    IN  {t \in [1..d -> E] :
            \A i \in 1..d : \A j \in 1..d : i < j => REq(Dot(t[i], t[j]), Zero)}

\* np.linalg.eig(A) for a real symmetric A: eigenvalues w in no
\* particular order, and V whose COLUMN V[:, i] is the unit eigenvector
\* of w[i]
Eig(A) ==
    {[w |-> [i \in 1..Len(A) |-> Rayleigh(A, t[i])], V |-> Transpose(t)] :
        t \in EigenBases(A)}

Sqrt(q) == [sq |-> q]
\* np.square of a singular value
Square(s) == s.sq

Min(a, b) == IF a <= b THEN a ELSE b

\* np.linalg.svd(M) (full_matrices=True) without U, which the program
\* never reads: min(n, d) singular values in descending order, and the
\* d x d matrix Vh whose ROW i is the right-singular vector of sig[i]
\* (the rows past min(n, d) complete the basis with null directions)
Svd(M) ==
    LET G == MatMul(Transpose(M), M)
        d == Cols(M)
        m == Min(Rows(M), d)
    IN  {[sig |-> [i \in 1..m |-> Sqrt(Rayleigh(G, t[i]))], Vh |-> t] :
            t \in {b \in EigenBases(G) :
                     \A i \in 1..(d - 1) :
                        RLeq(Rayleigh(G, b[i + 1]), Rayleigh(G, b[i]))}}

(* ---------------------------------------------------------------------- *)
(* class PCA                                                              *)
(* ---------------------------------------------------------------------- *)
\* the index arrays of length n: the orders of 0 .. n-1 (here 1 .. n)
IndexOrders(n) ==
    {p \in [1..n -> 1..n] : \A i \in 1..n : \E j \in 1..n : p[j] = i}

\* the sort order of argsort: x must come before y; nan sorts last
SortsBefore(x, y) == (~IsNaN(x) /\ IsNaN(y)) \/ RLt(x, y)

\* a.argsort(): the index arrays that sort a ascending.  The default sort
\* kind is not stable, so equal elements (and nans) may come in any order.
ArgSort(a) ==
    {p \in IndexOrders(Len(a)) :
        \A i \in 1..Len(a) : \A j \in 1..Len(a) :
            i < j => ~SortsBefore(a[p[j]], a[p[i]])}

\* s[::-1]
Reverse(s) == [p \in 1..Len(s) |-> s[Len(s) + 1 - p]]

\* components.argsort()[::-1]
ArgSortDescending(a) == {Reverse(p) : p \in ArgSort(a)}

\* a[idx] with an index array: entry p is a[idx[p]]; on a matrix this
\* picks ROWS
TakeIndex(a, idx) == [p \in 1..Len(idx) |-> a[idx[p]]]

\* fit_cov(X): the (components, vectors) it may store
fit_cov(X) ==
    UNION {{[components |-> TakeIndex(e.w, idx),
             vectors |-> TakeIndex(e.V, idx)] : idx \in ArgSortDescending(e.w)} :
              e \in Eig(Cov(X))}

\* np.square(sig) / (X.shape[0] - 1)
SvdComponents(sig, n) ==
    [i \in 1..Len(sig) |-> RDiv(Square(sig[i]), R(n - 1))]

\* fit_svd(X): the (components, vectors) it may store
fit_svd(X) ==
    {[components |-> SvdComponents(s.sig, Rows(X)), vectors |-> s.Vh] :
        s \in Svd(X)}

\* fit(X): centres by the per-feature mean and dispatches on the solver
fit(slv, X) ==
    LET zero_mean == SubRow(X, MeanAxis0(X))
    IN  IF slv = "svd" THEN fit_svd(zero_mean) ELSE fit_cov(zero_mean)

\* transform(X) on a model whose vectors are vecs
transform(vecs, X) ==
    IF vecs = None
    THEN \* None has no attribute T
         [outcome |-> "AttributeError", matrix |-> None]
    ELSE IF Cols(X) # Cols(vecs)
    THEN \* dot: shapes (n,dx) and (d,d) not aligned
         [outcome |-> "ValueError", matrix |-> None]
    ELSE [outcome |-> "returned",
          matrix |-> MatMul(SubRow(X, MeanAxis0(X)), Transpose(vecs))]

\* fit_transform(X): centres by the scalar mean of the whole matrix,
\* fits, and returns self.transform(x)
fit_transform(slv, X) ==
    LET zero_mean == SubScalar(X, MeanAll(X))
        fitted == IF slv = "svd" THEN fit_svd(zero_mean) ELSE fit_cov(zero_mean)
    IN  {[components |-> f.components, vectors |-> f.vectors,
          ret |-> transform(f.vectors, X)] : f \in fitted}

\* a[:k] for k >= 0
SliceTo(a, k) == SubSeq(a, 1, Min(k, Len(a)))

\* the property with the slice one short, components[:n_components - 1]
explained_variance_off_by_one(comps, k) ==
    IF comps = None
    THEN [outcome |-> "TypeError", value |-> None]
    ELSE [outcome |-> "returned",
          value |-> RDiv(RSum(SliceTo(comps, k - 1)), RSum(comps))]

\* the explained_variance property
explained_variance(comps, k) ==
    IF comps = None
    THEN \* None is not subscriptable
         [outcome |-> "TypeError", value |-> None]
    ELSE [outcome |-> "returned",
          value |-> RDiv(RSum(SliceTo(comps, k)), RSum(comps))]

\* what a direct call of fit_svd / fit_cov on each input may store (the
\* input is passed as it is, not centred)
FitSvdTable == [i \in DataIds |-> fit_svd(Datasets[i])]
FitCovTable == [i \in DataIds |-> fit_cov(Datasets[i])]

\* what each fit may store, per solver and input
FitTable == [s \in Solvers |-> [i \in DataIds |-> fit(s, Datasets[i])]]
FitTransformTable ==
    [s \in Solvers |-> [i \in DataIds |-> fit_transform(s, Datasets[i])]]

(* ---------------------------------------------------------------------- *)
(* State machine: one PCA object and the calls made on it                 *)
(* ---------------------------------------------------------------------- *)
\* __init__(n_components, solver)
Init ==
    /\ n_components \in 1..MaxComponents
    /\ solver \in Solvers
    /\ components = None
    /\ vectors = None
    /\ lastOp = "init"
    /\ arg = 0
    /\ argAfter = None
    /\ outcome = "none"
    /\ retMatrix = None
    /\ retScalar = None
    /\ fitArg = 0
    /\ refit = FALSE

\* a fit that keeps what an earlier fit stored
FitKeepsEarlier(i) ==
    /\ \E f \in FitTable[solver][i] :
          /\ components' = IF components = None THEN f.components ELSE components
          /\ vectors' = IF vectors = None THEN f.vectors ELSE vectors
    /\ lastOp' = "fit"
    /\ arg' = i
    /\ argAfter' = Datasets[i]
    /\ outcome' = "returned"
    /\ retMatrix' = None
    /\ retScalar' = None
    /\ fitArg' = i
    /\ refit' = (fitArg # 0 /\ fitArg # i)
    /\ UNCHANGED <<n_components, solver>>

\* pca.fit(Datasets[i])
Fit(i) ==
    /\ \E f \in FitTable[solver][i] :
          /\ components' = f.components
          /\ vectors' = f.vectors
    /\ lastOp' = "fit"
    /\ arg' = i
    /\ argAfter' = Datasets[i]
    /\ outcome' = "returned"
    /\ retMatrix' = None
    /\ retScalar' = None
    /\ fitArg' = i
    /\ refit' = (fitArg # 0 /\ fitArg # i)
    /\ UNCHANGED <<n_components, solver>>

\* pca.fit_svd(Datasets[i]), called directly: whatever self.solver is
FitSvd(i) ==
    /\ \E f \in FitSvdTable[i] :
          /\ components' = f.components
          /\ vectors' = f.vectors
    /\ lastOp' = "fit_svd"
    /\ arg' = i
    /\ argAfter' = Datasets[i]
    /\ outcome' = "returned"
    /\ retMatrix' = None
    /\ retScalar' = None
    /\ fitArg' = i
    /\ refit' = (fitArg # 0 /\ fitArg # i)
    /\ UNCHANGED <<n_components, solver>>

\* pca.fit_cov(Datasets[i]), called directly: whatever self.solver is
FitCov(i) ==
    /\ \E f \in FitCovTable[i] :
          /\ components' = f.components
          /\ vectors' = f.vectors
    /\ lastOp' = "fit_cov"
    /\ arg' = i
    /\ argAfter' = Datasets[i]
    /\ outcome' = "returned"
    /\ retMatrix' = None
    /\ retScalar' = None
    /\ fitArg' = i
    /\ refit' = (fitArg # 0 /\ fitArg # i)
    /\ UNCHANGED <<n_components, solver>>

\* pca.fit_transform(Datasets[i])
FitTransform(i) ==
    /\ \E f \in FitTransformTable[solver][i] :
          /\ components' = f.components
          /\ vectors' = f.vectors
          /\ outcome' = f.ret.outcome
          /\ retMatrix' = f.ret.matrix
    /\ lastOp' = "fit_transform"
    /\ arg' = i
    /\ argAfter' = Datasets[i]
    /\ retScalar' = None
    /\ fitArg' = i
    /\ refit' = (fitArg # 0 /\ fitArg # i)
    /\ UNCHANGED <<n_components, solver>>

\* a transform that centres the caller's array in place (X -= X.mean(0))
TransformInPlace(i) ==
    /\ LET r == transform(vectors, Datasets[i])
       IN  /\ outcome' = r.outcome
           /\ retMatrix' = r.matrix
    /\ lastOp' = "transform"
    /\ arg' = i
    /\ argAfter' = SubRow(Datasets[i], MeanAxis0(Datasets[i]))
    /\ retScalar' = None
    /\ UNCHANGED <<n_components, solver, components, vectors, fitArg, refit>>

\* pca.transform(Datasets[i])
Transform(i) ==
    /\ LET r == transform(vectors, Datasets[i])
       IN  /\ outcome' = r.outcome
           /\ retMatrix' = r.matrix
    /\ lastOp' = "transform"
    /\ arg' = i
    /\ argAfter' = Datasets[i]
    /\ retScalar' = None
    /\ UNCHANGED <<n_components, solver, components, vectors, fitArg, refit>>

\* pca.explained_variance
ExplainedVariance ==
    /\ LET r == explained_variance(components, n_components)
       IN  /\ outcome' = r.outcome
           /\ retScalar' = r.value
    /\ lastOp' = "explained_variance"
    /\ arg' = 0
    /\ argAfter' = None
    /\ retMatrix' = None
    /\ UNCHANGED <<n_components, solver, components, vectors, fitArg, refit>>

Next ==
    \/ \E i \in DataIds : Fit(i)
    \/ \E i \in DataIds : FitSvd(i)
    \/ \E i \in DataIds : FitCov(i)
    \/ \E i \in DataIds : FitTransform(i)
    \/ \E i \in DataIds : Transform(i)
    \/ ExplainedVariance

Spec == Init /\ [][Next]_vars

(* ---------------------------------------------------------------------- *)
(* Properties                                                             *)
(* ---------------------------------------------------------------------- *)
Fitted == fitArg # 0

NonIncreasing(a) ==
    \A i \in 1..(Len(a) - 1) : RLeq(a[i + 1], a[i])

\* C1: every transform returns (X - fitMean) . vectors^T, where fitMean is
\* the per-feature mean of the matrix given to the last fit -- never the
\* mean of the matrix being transformed.
C1_TransformCentresByFitMean ==
    (lastOp = "transform" /\ outcome = "returned") =>
        MatEq(retMatrix,
              MatMul(SubRow(Datasets[arg], MeanAxis0(Datasets[fitArg])),
                     Transpose(vectors)))

\* C2: before any fit, transform and the explained-variance query end in
\* InvalidStateError (no value returned, no other kind of error) and leave
\* the model state unchanged.
C2_UnfittedRaisesInvalidStateError ==
    (~Fitted /\ lastOp \in {"transform", "explained_variance"}) =>
        /\ outcome = "InvalidStateError"
        /\ retMatrix = None
        /\ retScalar = None
        /\ components = None
        /\ vectors = None

\* C3: after a fit the variances are non-increasing, and for the SVD
\* solver the program itself guarantees it (sorts or verifies): whatever
\* order the decomposition hands the singular values back in, what
\* fit_svd stores from them is non-increasing.
C3_SvdOrderGuaranteedByProgram ==
    /\ Fitted => NonIncreasing(components)
    /\ (lastOp = "fit" /\ solver = "svd") =>
          LET X == SubRow(Datasets[arg], MeanAxis0(Datasets[arg]))
          IN  \A s \in Svd(X) : \A p \in IndexOrders(Len(s.sig)) :
                 NonIncreasing(SvdComponents(TakeIndex(s.sig, p), Rows(X)))

\* C4: fit_transform(X) leaves the variances and directions, and returns
\* the matrix, that fit(X) followed by transform(X) may leave and return.
C4_FitTransformIsFitThenTransform ==
    lastOp = "fit_transform" =>
        \E f \in FitTable[solver][arg] :
            /\ components = f.components
            /\ vectors = f.vectors
            /\ outcome = transform(f.vectors, Datasets[arg]).outcome
            /\ retMatrix = transform(f.vectors, Datasets[arg]).matrix

\* C5: after a covariance-solver fit the direction stored at index i (row
\* i of vectors, the row transform projects onto) is an eigenvector of the
\* covariance matrix with eigenvalue variances[i].
C5_DirectionsMatchVariances ==
    (solver = "cov" /\ lastOp = "fit") =>
        \A i \in 1..Len(components) :
            VecEq(MatVec(Cov(Datasets[arg]), vectors[i]),
                  Scale(components[i], vectors[i]))

\* C6: with non-zero total variance the explained-variance ratio is
\* sum(variances[0:k]) / sum(variances); it does not decrease as k grows
\* and it is 1 when k is the number of stored variances.
C6_ExplainedVarianceRatio ==
    (Fitted /\ ~IsZero(RSum(components))) =>
        LET total == RSum(components)
            first(k) == RSum([i \in 1..Min(k, Len(components)) |-> components[i]])
            ratio(k) == explained_variance(components, k)
        IN  /\ lastOp = "explained_variance" =>
                 /\ outcome = "returned"
                 /\ IsFinite(retScalar)
                 /\ REq(RMul(retScalar, total), first(n_components))
            /\ \A k \in 1..MaxComponents :
                 /\ ratio(k).outcome = "returned"
                 /\ REq(RMul(ratio(k).value, total), first(k))
                 /\ RLeq(ratio(k).value, ratio(k + 1).value)
            /\ REq(ratio(Len(components)).value, One)

C6_Witness ==
    /\ Fitted
    /\ lastOp = "explained_variance"
    /\ n_components = 1
    /\ outcome = "returned"
    /\ retScalar = <<4, 5>>

\* C7: on a model fitted on data of zero total variance the
\* explained-variance query ends in DegenerateVarianceError, not in a
\* returned value.
C7_ZeroVarianceRaises ==
    (Fitted /\ IsZero(RSum(components)) /\ lastOp = "explained_variance") =>
        outcome = "DegenerateVarianceError"

\* C8: transform and the explained-variance query leave n_components,
\* solver, components and vectors unchanged, and after fit, fit_transform
\* or transform (and after a direct fit_svd or fit_cov) the caller's
\* matrix holds what it held before the call.
C8_ReadOnlyAndInputUntouched ==
    [][/\ lastOp' \in {"transform", "explained_variance"} =>
             UNCHANGED <<n_components, solver, components, vectors>>
       /\ lastOp' \in {"fit", "fit_svd", "fit_cov", "fit_transform",
                      "transform"} =>
             argAfter' = Datasets[arg']]_vars

C8_Witness ==
    /\ Fitted
    /\ lastOp = "transform"
    /\ outcome = "returned"
    /\ argAfter = Datasets[arg]
    /\ arg # fitArg
    /\ retMatrix # None

\* C9: after fit(X), whatever was fitted before, the stored variances and
\* directions are among those a freshly constructed model with the same
\* solver stores when fitted once on X.
C9_RefitOverwrites ==
    lastOp = "fit" =>
        [components |-> components, vectors |-> vectors]
            \in FitTable[solver][arg]

C9_Witness ==
    /\ lastOp = "fit"
    /\ refit
    /\ fitArg = 1

\* C10: after a fit, for any n and d, there is exactly one variance per
\* stored direction: as many variances as rows of vectors.
C10_OneVariancePerDirection ==
    Fitted => Len(components) = Rows(vectors)

====
